---- MODULE Spec2Model ----
(***************************************************************************)
(* Model of the Telegram trading bot: the signal parser                    *)
(* (signal_parser.py, bot.py), the cTrader gateway (api_integration.py)    *)
(* and the per-photo event handler (main.py).                              *)
(*                                                                         *)
(* Text is a sequence of one-character strings.  Python floats are         *)
(* modelled as exact decimals: a number v is the integer v * Unit.         *)
(* Binary rounding of floats is not modelled.                              *)
(***************************************************************************)
EXTENDS Integers, Sequences, FiniteSets, TLC

\* ---------------------------------------------------------------- bounds
\* A text is the concatenation of at most MaxFrags fragments of Vocabulary.
MaxFrags == 3

\* ------------------------------------------------------------ characters
LowerChars == <<"a","b","c","d","e","f","g","h","i","j","k","l","m",
                "n","o","p","q","r","s","t","u","v","w","x","y","z">>
UpperChars == <<"A","B","C","D","E","F","G","H","I","J","K","L","M",
                "N","O","P","Q","R","S","T","U","V","W","X","Y","Z">>
DigitChars == <<"0","1","2","3","4","5","6","7","8","9">>

Range(s) == {s[i] : i \in DOMAIN s}
Digits == Range(DigitChars)
Letters == Range(LowerChars) \cup Range(UpperChars)
\* \s of the re module, restricted to the characters of the vocabulary
Space == {" "}
\* the class [:\s]
ColonSpace == {":"} \cup Space

IndexIn(s, c) == CHOOSE i \in DOMAIN s : s[i] = c

\* the case mappings of the ASCII letters
UpperMap == [c \in Range(LowerChars) |-> UpperChars[IndexIn(LowerChars, c)]]
LowerMap == [c \in Range(UpperChars) |-> LowerChars[IndexIn(UpperChars, c)]]

\* str.upper() on one character
UpperChar(c) == IF c \in DOMAIN UpperMap THEN UpperMap[c] ELSE c
\* case folding of one character under re.I
LowerChar(c) == IF c \in DOMAIN LowerMap THEN LowerMap[c] ELSE c
\* str.upper()
Upper(t) == [i \in DOMAIN t |-> UpperChar(t[i])]

\* "needle in t": left-to-right scan for the first offset where needle occurs
RECURSIVE FindFrom(_, _, _)
FindFrom(t, needle, i) ==
  IF i + Len(needle) - 1 > Len(t) THEN 0
  ELSE IF SubSeq(t, i, i + Len(needle) - 1) = needle THEN i
  ELSE FindFrom(t, needle, i + 1)

Contains(t, needle) == FindFrom(t, needle, 1) # 0

\* ------------------------------------------------------------ re helpers
\* end of the longest run of characters of class S starting at i (greedy S*)
SkipClass(t, i, S) ==
  CHOOSE j \in i..(Len(t) + 1) :
    /\ (j = Len(t) + 1 \/ t[j] \notin S)
    /\ \A k \in i..(j - 1) : t[k] \in S

\* a lower-case literal matched at i, ignoring case (re.I)
MatchLit(t, i, lit) ==
  /\ i + Len(lit) - 1 <= Len(t)
  /\ \A k \in 1..Len(lit) : LowerChar(t[i + k - 1]) = lit[k]

\* A label is one or two literals; two literals are separated by \s*.
\* The position after the label matched at i, or 0.
LabelEnd(t, i, parts) ==
  IF ~MatchLit(t, i, parts[1]) THEN 0
  ELSE LET j == i + Len(parts[1]) IN
       IF Len(parts) = 1 THEN j
       ELSE LET k == SkipClass(t, j, Space) IN
            IF MatchLit(t, k, parts[2]) THEN k + Len(parts[2]) ELSE 0

NoMatch == [ok |-> FALSE, ip |-> <<>>, fp |-> <<>>]

\* (\d+\.?\d*) at k: the integer digits and the fraction digits of the group
RiskNumber(t, k) ==
  LET e1 == SkipClass(t, k, Digits) IN
  IF e1 = k THEN NoMatch
  ELSE IF e1 <= Len(t) /\ t[e1] = "."
       THEN [ok |-> TRUE, ip |-> SubSeq(t, k, e1 - 1),
             fp |-> SubSeq(t, e1 + 1, SkipClass(t, e1 + 1, Digits) - 1)]
       ELSE [ok |-> TRUE, ip |-> SubSeq(t, k, e1 - 1), fp |-> <<>>]

\* (\d+\.?\d+) at k: the last \d+ needs a digit of its own, so a lone digit,
\* or a lone digit followed by a bare ".", does not match
PriceNumber(t, k) ==
  LET e1 == SkipClass(t, k, Digits) IN
  IF e1 = k THEN NoMatch
  ELSE LET e2 == IF e1 <= Len(t) /\ t[e1] = "." THEN SkipClass(t, e1 + 1, Digits) ELSE e1 IN
       IF e2 > e1 + 1
       THEN [ok |-> TRUE, ip |-> SubSeq(t, k, e1 - 1), fp |-> SubSeq(t, e1 + 1, e2 - 1)]
       ELSE IF e1 - k >= 2
            THEN [ok |-> TRUE, ip |-> SubSeq(t, k, e1 - 1), fp |-> <<>>]
            ELSE NoMatch

\* ([A-Z]{3,10}) under re.I at k: three to ten letters, greedy
SymbolGroup(t, k) ==
  LET e == SkipClass(t, k, Letters) IN
  IF e - k < 3 THEN <<>>
  ELSE SubSeq(t, k, (IF e - k > 10 THEN k + 10 ELSE e) - 1)

\* float(): value of the decimal ip.fp in units of 1/Unit
Unit == 10 * 10
DigitVal(c) == IndexIn(DigitChars, c) - 1
RECURSIVE DecVal(_)
DecVal(ds) ==
  IF ds = <<>> THEN 0
  ELSE DecVal(SubSeq(ds, 1, Len(ds) - 1)) * 10 + DigitVal(ds[Len(ds)])
\* the fraction keeps two digits: no text within the bounds has more
ToFloat(m) ==
  DecVal(m.ip) * Unit
  + (IF Len(m.fp) = 0 THEN 0
     ELSE IF Len(m.fp) = 1 THEN DigitVal(m.fp[1]) * 10
     ELSE DigitVal(m.fp[1]) * 10 + DigitVal(m.fp[2]))

\* the alternatives of the labels, in the order the patterns list them
RiskLabels == << << <<"r","i","s","k">> >> >>
SLLabels == << << <<"s","l">> >>, << <<"s","t","o","p">>, <<"l","o","s","s">> >> >>
TPLabels == << << <<"t","p">> >>, << <<"t","a","k","e">>, <<"p","r","o","f","i","t">> >> >>
SymbolLabels == << << <<"s","y","m","b","o","l">> >>, << <<"p","a","i","r">> >>,
                   << <<"a","s","s","e","t">> >> >>

\* label[:\s]*(number) attempted at i: alternatives in order, the first that
\* completes the whole pattern wins
RECURSIVE RiskAt(_, _, _, _)
RiskAt(t, i, labels, a) ==
  IF a > Len(labels) THEN NoMatch
  ELSE LET j == LabelEnd(t, i, labels[a])
           m == IF j = 0 THEN NoMatch ELSE RiskNumber(t, SkipClass(t, j, ColonSpace)) IN
       IF m.ok THEN m ELSE RiskAt(t, i, labels, a + 1)

RECURSIVE PriceAt(_, _, _, _)
PriceAt(t, i, labels, a) ==
  IF a > Len(labels) THEN NoMatch
  ELSE LET j == LabelEnd(t, i, labels[a])
           m == IF j = 0 THEN NoMatch ELSE PriceNumber(t, SkipClass(t, j, ColonSpace)) IN
       IF m.ok THEN m ELSE PriceAt(t, i, labels, a + 1)

RECURSIVE SymbolAt(_, _, _, _)
SymbolAt(t, i, labels, a) ==
  IF a > Len(labels) THEN <<>>
  ELSE LET j == LabelEnd(t, i, labels[a])
           g == IF j = 0 THEN <<>> ELSE SymbolGroup(t, SkipClass(t, j, ColonSpace)) IN
       IF g # <<>> THEN g ELSE SymbolAt(t, i, labels, a + 1)

\* re.search: positions are tried left to right, the first match wins
RECURSIVE SearchRiskFrom(_, _)
SearchRiskFrom(t, i) ==
  IF i > Len(t) THEN NoMatch
  ELSE LET m == RiskAt(t, i, RiskLabels, 1) IN
       IF m.ok THEN m ELSE SearchRiskFrom(t, i + 1)

SearchRisk(t) == SearchRiskFrom(t, 1)

RECURSIVE SearchPriceFrom(_, _, _)
SearchPriceFrom(t, labels, i) ==
  IF i > Len(t) THEN NoMatch
  ELSE LET m == PriceAt(t, i, labels, 1) IN
       IF m.ok THEN m ELSE SearchPriceFrom(t, labels, i + 1)

SearchPrice(t, labels) == SearchPriceFrom(t, labels, 1)

RECURSIVE SearchSymbolFrom(_, _)
SearchSymbolFrom(t, i) ==
  IF i > Len(t) THEN <<>>
  ELSE LET g == SymbolAt(t, i, SymbolLabels, 1) IN
       IF g # <<>> THEN g ELSE SearchSymbolFrom(t, i + 1)

SearchSymbol(t) == SearchSymbolFrom(t, 1)

\* ---------------------------------------------------------------- Signal
\* Optional numbers: <<>> is None, <<v>> is the float v.  An unset action is
\* the string "None"; an unset symbol is the empty sequence.
None == <<>>
Some(v) == <<v>>
NoAction == "None"

Min(a, b) == IF a <= b THEN a ELSE b
Max(a, b) == IF a >= b THEN a ELSE b

\* variant: SELL tested before BUY
ExtractActionSellFirst(text) ==
  LET text_upper == Upper(text) IN
  IF Contains(text_upper, <<"S","E","L","L">>) THEN "SELL"
  ELSE IF Contains(text_upper, <<"B","U","Y">>) THEN "BUY"
  ELSE NoAction

\* the action test of parse_gemini_response, BUY first
ExtractAction(text) ==
  LET text_upper == Upper(text) IN
  IF Contains(text_upper, <<"B","U","Y">>) THEN "BUY"
  ELSE IF Contains(text_upper, <<"S","E","L","L">>) THEN "SELL"
  ELSE NoAction

\* the risk assignment of parse_gemini_response
ExtractRisk(text, config) ==
  LET risk_match == SearchRisk(text) IN
  IF risk_match.ok THEN Min(ToFloat(risk_match), config.max_risk_percent)
  ELSE config.default_risk_percent

ExtractPrice(text, labels) ==
  LET m == SearchPrice(text, labels) IN
  IF m.ok THEN Some(ToFloat(m)) ELSE None

\* variant: take_profit left out of required_fields
validate_signal_without_tp(signal) ==
  /\ signal.action # NoAction
  /\ signal.stop_loss # None

\* required_fields of validate_signal; the risk-reward block computes nothing
validate_signal(signal) ==
  /\ signal.action # NoAction
  /\ signal.stop_loss # None
  /\ signal.take_profit # None

parse_gemini_response(text, config) ==
  LET signal == [valid |-> FALSE,
                 action |-> ExtractAction(text),
                 risk_percent |-> ExtractRisk(text, config),
                 stop_loss |-> ExtractPrice(text, SLLabels),
                 take_profit |-> ExtractPrice(text, TPLabels),
                 symbol |-> Upper(SearchSymbol(text))] IN
  [signal EXCEPT !.valid = validate_signal(signal)]

\* bot.py: the stand-alone parser; fixed default risk 1.0, no clamp, no
\* symbol, no valid flag
BotExtractAction(text) ==
  LET text_upper == Upper(text) IN
  IF Contains(text_upper, <<"B","U","Y">>) THEN "BUY"
  ELSE IF Contains(text_upper, <<"S","E","L","L">>) THEN "SELL"
  ELSE NoAction

parse_signal(text) ==
  LET risk_match == SearchRisk(text) IN
  [action |-> BotExtractAction(text),
   risk_percent |-> IF risk_match.ok THEN ToFloat(risk_match) ELSE 1 * Unit,
   stop_loss |-> ExtractPrice(text, SLLabels),
   take_profit |-> ExtractPrice(text, TPLabels)]

\* ------------------------------------------------------------ vocabulary
Vocabulary ==
  { <<"S","e","l","l"," ">>,
    <<"b","u","y">>,
    <<"S","t","o","p"," ","L","o","s","s",":"," ","1","9","5","0",".","5"," ">>,
    <<"T","P",":","1","9","0","0",".","2"," ">>,
    <<"r","i","s","k"," ">>,
    <<"s","l",":">>,
    <<"5">>,
    <<"1",".","5","%">>,
    <<".">> }

RECURSIVE Concat(_)
Concat(fs) == IF fs = <<>> THEN <<>> ELSE Head(fs) \o Concat(Tail(fs))

Texts == {Concat(fs) : fs \in UNION {[1..n -> Vocabulary] : n \in 0..MaxFrags}}

\* default_risk_percent and max_risk_percent of config.json
DefaultRisks == {1 * Unit, 3 * Unit}
MaxRisks == {2 * Unit, 4 * Unit}
ParserConfigs ==
  [default_risk_percent : DefaultRisks, max_risk_percent : MaxRisks,
   enable_auto_trade : {TRUE}]

\* ---------------------------------------------------------------- gateway
\* Balances are whole dollars; a risk percentage r is the integer r * Unit.
FallbackBalance == 10000
VolumeScale == 10
MinVolume == 1000
Percent == 100

\* What the brokerage does with one request.  err: the transport raised;
\* status: the HTTP status; body: what response.json() finds.
Reply(err, status, body, balance) ==
  [err |-> err, status |-> status, body |-> body, balance |-> balance]

\* answers to GET /v1/accounts/{id}
GetReplies ==
  { Reply(TRUE, 0, "none", 0),
    Reply(FALSE, 200, "balance", 5000),
    Reply(FALSE, 200, "balance", 200000),
    Reply(FALSE, 200, "nobalance", 0),
    Reply(FALSE, 200, "badbalance", 0),
    Reply(FALSE, 200, "notjson", 0),
    Reply(FALSE, 204, "none", 0),
    Reply(FALSE, 404, "notjson", 0) }

\* answers to POST /v1/orders
PostReplies ==
  { Reply(TRUE, 0, "none", 0),
    Reply(FALSE, 200, "object", 0),
    Reply(FALSE, 201, "object", 0),
    Reply(FALSE, 201, "notjson", 0),
    Reply(FALSE, 202, "object", 0),
    Reply(FALSE, 400, "notjson", 0) }

\* answers to DELETE /v1/positions/{id}
DeleteReplies ==
  { Reply(TRUE, 0, "none", 0),
    Reply(FALSE, 200, "object", 0),
    Reply(FALSE, 204, "none", 0),
    Reply(FALSE, 404, "notjson", 0) }

\* one HTTP request as the brokerage sees it, with the answer it gave
Request(method, payload, reply) ==
  [method |-> method, payload |-> payload, reply |-> reply]

\* variant: no try/except around the request, a transport error propagates
get_account_balance_unguarded(conn, getReply) ==
  IF ~conn THEN [value |-> FallbackBalance, requests |-> <<>>, raised |-> FALSE]
  ELSE [value |->
          IF getReply.err THEN 0
          ELSE IF getReply.status = 200 /\ getReply.body = "balance" THEN getReply.balance
          ELSE FallbackBalance,
        requests |-> <<Request("GET", <<>>, getReply)>>,
        raised |-> getReply.err]

\* get_account_balance: the value returned and the requests issued.  The
\* whole body is inside try/except Exception, so nothing is raised.
get_account_balance(conn, getReply) ==
  IF ~conn THEN [value |-> FallbackBalance, requests |-> <<>>, raised |-> FALSE]
  ELSE [value |->
          IF getReply.err THEN FallbackBalance
          ELSE IF getReply.status = 200
               THEN IF getReply.body = "balance" THEN getReply.balance
                    ELSE IF getReply.body = "nobalance" THEN 0
                    ELSE FallbackBalance
               ELSE FallbackBalance,
        requests |-> <<Request("GET", <<>>, getReply)>>,
        raised |-> FALSE]

\* calculate_lot_size, given the balance get_account_balance returned:
\* int(balance * (risk_percent / 100) * 10), at least 1000
calculate_lot_size(risk_percent, balance) ==
  Max((balance * risk_percent * VolumeScale) \div (Percent * Unit), MinVolume)

\* the order payload of execute_trade
OrderPayload(signal, volume) ==
  [symbolName |-> IF signal.symbol # <<>> THEN signal.symbol
                  ELSE <<"X","A","U","U","S","D">>,
   tradeSide |-> IF signal.action = "BUY" THEN "BUY" ELSE "SELL",
   volume |-> volume,
   stopLoss |-> signal.stop_loss,
   takeProfit |-> signal.take_profit,
   orderType |-> "MARKET"]

\* variant: the connection test left out
RefusesInvalidOnly(conn, signal) == ~signal.valid

\* the two refusals at the top of execute_trade
Refuses(conn, signal) == ~signal.valid \/ ~conn

\* variant: only 200 accepted
OrderAccepted200Only(status) == status = 200

\* the status test of execute_trade on the order response
OrderAccepted(status) == status \in {200, 201}

\* execute_trade: the value returned and the requests issued
execute_trade(conn, signal, getReply, postReply) ==
  IF Refuses(conn, signal)
  THEN [result |-> FALSE, requests |-> <<>>, raised |-> FALSE]
  ELSE LET bal == get_account_balance(conn, getReply)
           volume == calculate_lot_size(signal.risk_percent, bal.value)
           post == Request("POST", <<OrderPayload(signal, volume)>>, postReply) IN
       [result |-> /\ ~postReply.err
                   /\ OrderAccepted(postReply.status)
                   /\ postReply.body = "object",
        requests |-> bal.requests \o <<post>>,
        raised |-> FALSE]

\* variant: the flag is assigned the outcome of every attempt
connect_assigning_outcome(conn, getReply) ==
  LET ok == ~getReply.err /\ getReply.status = 200 IN
  [result |-> ok, connection |-> ok,
   requests |-> <<Request("GET", <<>>, getReply)>>, raised |-> FALSE]

\* connect: the value returned, the new connection flag, the request issued
connect(conn, getReply) ==
  LET ok == ~getReply.err /\ getReply.status = 200 IN
  [result |-> ok, connection |-> IF ok THEN TRUE ELSE conn,
   requests |-> <<Request("GET", <<>>, getReply)>>, raised |-> FALSE]

\* close_position: no connection test, one DELETE
close_position(delReply) ==
  [result |-> ~delReply.err /\ delReply.status = 200,
   requests |-> <<Request("DELETE", <<>>, delReply)>>, raised |-> FALSE]

\* signals a caller may hand to execute_trade
XAUUSD == <<"X","A","U","U","S","D">>
GatewaySignals ==
  [valid : BOOLEAN, action : {"BUY", "SELL", NoAction},
   risk_percent : {(3 * Unit) \div 2}, stop_loss : {None, Some(1950 * Unit)},
   take_profit : {Some(1900 * Unit)}, symbol : {<<>>, XAUUSD}]

\* ---------------------------------------------------------- event handler
Handlers == {"h1", "h2"}

\* The texts the vision model returns for the photos of the events.
\* E1: "Sell XAUUSD now. Stop Loss: 1950.5 Take Profit: 1900.2 Risk: 1.5%"
E1 == <<"S","e","l","l"," ","X","A","U","U","S","D"," ","n","o","w","."," ",
        "S","t","o","p"," ","L","o","s","s",":"," ","1","9","5","0",".","5"," ",
        "T","a","k","e"," ","P","r","o","f","i","t",":"," ","1","9","0","0",".","2"," ",
        "R","i","s","k",":"," ","1",".","5","%">>
\* E2: "BUY pair: eurusd sl 1.05 tp 1.25 risk 5%"
E2 == <<"B","U","Y"," ","p","a","i","r",":"," ","e","u","r","u","s","d"," ",
        "s","l"," ","1",".","0","5"," ","t","p"," ","1",".","2","5"," ",
        "r","i","s","k"," ","5","%">>
\* E3: "Buy gold"
E3 == <<"B","u","y"," ","g","o","l","d">>
\* the photos posted to the channel
Events == {"e1", "e2", "e3"}

Configs ==
  [default_risk_percent : {1 * Unit}, max_risk_percent : {2 * Unit},
   enable_auto_trade : BOOLEAN]

NoPhoto == "none"
NoEvent == "none"

\* a signal that was not computed, and one that was
NotRun == [run |-> FALSE]
Ran(s) == [run |-> TRUE, signal |-> s]

\* the outcome of the event a handler worked on last
NoOutcome ==
  [status |-> "none", text |-> NoEvent, signal |-> NotRun, invoked |-> 0,
   result |-> "none", requests |-> <<>>, stages |-> <<>>, raised |-> FALSE]

\* variant: the auto-trade flag not consulted
ShouldTradeIfValid(config, signal) == signal.valid

\* the condition of handle_photo for calling execute_trade
ShouldTrade(config, signal) == config.enable_auto_trade /\ signal.valid

\* variant: photo kept in one module-level global all invocations share
StorePhotoGlobal(ph, h, file) == [g \in DOMAIN ph |-> file]

\* photo = await ...get_file(): a local of the invocation h
StorePhoto(ph, h, file) == [ph EXCEPT ![h] = file]

\* variant: the exception is re-raised out of the handler
OutcomeOnFailureReraised(o, text, stages) ==
  [o EXCEPT !.status = "failed", !.text = text, !.stages = stages, !.raised = TRUE]

\* the except clause of handle_photo: the failure is printed, nothing is
\* re-raised, nothing else is done
OutcomeOnFailure(o, text, stages) ==
  [o EXCEPT !.status = "failed", !.text = text, !.stages = stages]

\* gemini_model.generate_content on the bytes of a photo: the text of the
\* response, determined by the photo
ModelText(photo_bytes) ==
  IF photo_bytes = "e1" THEN E1 ELSE IF photo_bytes = "e2" THEN E2 ELSE E3

\* signal_parser.parse_gemini_response on the texts of the events, tabulated
ParsedEvents ==
  {<<e, c, parse_gemini_response(ModelText(e), c)>> : e \in Events, c \in Configs}
ParsedEvent(e, c) == (CHOOSE r \in ParsedEvents : r[1] = e /\ r[2] = c)[3]

\* handle_photo after the parse: the auto-trade test and execute_trade
OutcomeOnSignal(config, conn, own, signal, stages, getReply, postReply) ==
  LET r == execute_trade(conn, signal, getReply, postReply) IN
  IF ShouldTrade(config, signal)
  THEN [status |-> "done", text |-> own, signal |-> Ran(signal), invoked |-> 1,
        result |-> IF r.result THEN "success" ELSE "failure",
        requests |-> r.requests, stages |-> stages, raised |-> r.raised]
  ELSE [status |-> "done", text |-> own, signal |-> Ran(signal), invoked |-> 0,
        result |-> "none", requests |-> <<>>, stages |-> stages, raised |-> FALSE]

\* the answers the brokerage gives while an event is handled
EventGetReplies ==
  {g \in GetReplies : g.err \/ g.status = 404 \/ (g.body = "balance" /\ g.balance > FallbackBalance)}
EventPostReplies ==
  {p \in PostReplies : p.err \/ p.body = "object"}

\* ------------------------------------------------------------------ state
VARIABLES
  ptext,      \* parser harness: the text handed to the parsers
  pconfig,    \* parser harness: the configuration of the SignalParser
  psignal,    \* parser harness: result of parse_gemini_response, or NotRun
  bsignal,    \* parser harness: result of bot.py parse_signal, or NotRun
  CONFIG,     \* config.json as loaded at startup
  connection, \* broker_api.connection: FALSE is None
  call,       \* gateway harness: the last direct call of a gateway operation
  pc,         \* per invocation of handle_photo: where it is suspended
  ev,         \* per invocation: the event (the photo) it was called with
  photo,      \* per invocation: the local photo (the file it stands for)
  out         \* per invocation: the outcome of its last event

parserVars == <<ptext, pconfig, psignal, bsignal>>
handlerVars == <<pc, ev, photo, out>>
vars == <<ptext, pconfig, psignal, bsignal, CONFIG, connection, call, pc, ev, photo, out>>

NoCall == [op |-> "none"]

ParserIdle ==
  /\ ptext = <<>>
  /\ pconfig = CHOOSE c \in ParserConfigs : TRUE
  /\ psignal = NotRun
  /\ bsignal = NotRun

SystemIdle ==
  /\ connection = FALSE
  /\ call = NoCall
  /\ pc = [h \in Handlers |-> "idle"]
  /\ ev = [h \in Handlers |-> NoEvent]
  /\ photo = [h \in Handlers |-> NoPhoto]
  /\ out = [h \in Handlers |-> NoOutcome]

\* ------------------------------------------------------ parser harness
ParseInit ==
  /\ ptext \in Texts
  /\ pconfig \in ParserConfigs
  /\ psignal = NotRun
  /\ bsignal = NotRun
  /\ CONFIG = CHOOSE c \in Configs : TRUE
  /\ SystemIdle

\* signal_parser.parse_gemini_response(text)
ParseGemini ==
  /\ psignal = NotRun
  /\ psignal' = Ran(parse_gemini_response(ptext, pconfig))
  /\ UNCHANGED <<ptext, pconfig, bsignal, CONFIG, connection, call, handlerVars>>

\* bot.parse_signal(text)
ParseBot ==
  /\ bsignal = NotRun
  /\ bsignal' = Ran(parse_signal(ptext))
  /\ UNCHANGED <<ptext, pconfig, psignal, CONFIG, connection, call, handlerVars>>

ParseNext == ParseGemini \/ ParseBot

SpecParse == ParseInit /\ [][ParseNext]_vars

\* ----------------------------------------------------- gateway operations
\* All are synchronous: each is one step.
Connect ==
  \E g \in GetReplies :
    LET r == connect(connection, g) IN
    /\ connection' = r.connection
    /\ call' = [op |-> "connect", before |-> connection, result |-> r.result,
                requests |-> r.requests, raised |-> r.raised]
    /\ UNCHANGED <<parserVars, CONFIG, handlerVars>>

ExecuteTrade ==
  \E signal \in GatewaySignals, g \in GetReplies, p \in PostReplies :
    LET r == execute_trade(connection, signal, g, p) IN
    /\ call' = [op |-> "execute_trade", before |-> connection, signal |-> signal,
                result |-> r.result, requests |-> r.requests, raised |-> r.raised]
    /\ UNCHANGED <<parserVars, CONFIG, connection, handlerVars>>

GetAccountBalance ==
  \E g \in GetReplies :
    LET r == get_account_balance(connection, g) IN
    /\ call' = [op |-> "get_account_balance", before |-> connection, value |-> r.value,
                requests |-> r.requests, raised |-> r.raised]
    /\ UNCHANGED <<parserVars, CONFIG, connection, handlerVars>>

ClosePosition ==
  \E d \in DeleteReplies :
    LET r == close_position(d) IN
    /\ call' = [op |-> "close_position", before |-> connection, result |-> r.result,
                requests |-> r.requests, raised |-> r.raised]
    /\ UNCHANGED <<parserVars, CONFIG, connection, handlerVars>>

GatewayInit ==
  /\ ParserIdle
  /\ CONFIG = CHOOSE c \in Configs : TRUE
  /\ SystemIdle

GatewayNext == Connect \/ ExecuteTrade \/ GetAccountBalance \/ ClosePosition

SpecGateway == GatewayInit /\ [][GatewayNext]_vars

\* ------------------------------------------------------------ handle_photo
\* An invocation runs to its first await; between awaits it is one step,
\* and everything after the download is synchronous.

\* the dispatcher calls handle_photo(update) for a channel photo
Receive(h) ==
  \E t \in Events :
    /\ pc[h] = "idle"
    /\ pc' = [pc EXCEPT ![h] = "get_file"]
    /\ ev' = [ev EXCEPT ![h] = t]
    /\ out' = [out EXCEPT ![h] = NoOutcome]
    /\ UNCHANGED <<parserVars, CONFIG, connection, call, photo>>

\* the handler ends in its except clause
Abort(h, stages) ==
  /\ pc' = [pc EXCEPT ![h] = "idle"]
  /\ ev' = [ev EXCEPT ![h] = NoEvent]
  /\ photo' = [photo EXCEPT ![h] = NoPhoto]
  /\ out' = [out EXCEPT ![h] = OutcomeOnFailure(out[h], ev[h], stages)]

\* await update.channel_post.photo[-1].get_file() completes or raises
GetFile(h) ==
  /\ pc[h] = "get_file"
  /\ \E ok \in BOOLEAN :
       IF ok
       THEN /\ photo' = StorePhoto(photo, h, ev[h])
            /\ pc' = [pc EXCEPT ![h] = "download"]
            /\ out' = [out EXCEPT ![h].stages = <<"get_file">>]
            /\ ev' = ev
       ELSE Abort(h, <<"get_file">>)
  /\ UNCHANGED <<parserVars, CONFIG, connection, call>>

\* await photo.download_as_bytearray() completes or raises; on completion
\* the rest of the handler runs: generate_content, parse, execute_trade
Download(h) ==
  /\ pc[h] = "download"
  /\ LET signal == ParsedEvent(photo[h], CONFIG) IN
     \E ok \in BOOLEAN, inferOk \in BOOLEAN, g \in EventGetReplies, p \in EventPostReplies :
       IF ~ok THEN Abort(h, <<"get_file", "download">>)
       ELSE IF ~inferOk THEN Abort(h, <<"get_file", "download", "generate">>)
       ELSE /\ pc' = [pc EXCEPT ![h] = "idle"]
            /\ ev' = [ev EXCEPT ![h] = NoEvent]
            /\ photo' = [photo EXCEPT ![h] = NoPhoto]
            /\ out' = [out EXCEPT ![h] =
                         OutcomeOnSignal(CONFIG, connection, ev[h], signal,
                                         <<"get_file", "download", "generate">>, g, p)]
  /\ UNCHANGED <<parserVars, CONFIG, connection, call>>

HandlerStep(h) == Receive(h) \/ GetFile(h) \/ Download(h)

Init ==
  /\ ParserIdle
  /\ CONFIG \in Configs
  /\ SystemIdle

\* main.py as wired: handlers only, nothing calls broker_api.connect()
MainNext == \E h \in Handlers : HandlerStep(h)

SpecMain == Init /\ [][MainNext]_vars

\* the handlers beside a caller that may connect the gateway
Next == (\E h \in Handlers : HandlerStep(h)) \/ Connect

Spec == Init /\ [][Next]_vars

\* ================================================================ claims
\* w occurs in t at some offset
Occurs(t, w) ==
  \E i \in 1..(Len(t) - Len(w) + 1) : \A k \in 1..Len(w) : t[i + k - 1] = w[k]
\* the lower-case word w occurs in t when case is ignored
OccursAnyCase(t, w) ==
  \E i \in 1..(Len(t) - Len(w) + 1) : \A k \in 1..Len(w) : LowerChar(t[i + k - 1]) = w[k]
HasBuy(t) == OccursAnyCase(t, <<"b","u","y">>)
HasSell(t) == OccursAnyCase(t, <<"s","e","l","l">>)

\* the order requests among the requests of an outcome
Posts(reqs) == {i \in DOMAIN reqs : reqs[i].method = "POST"}

\* the balance get_account_balance returned for the GET before request i
BalanceBefore(reqs, i) == get_account_balance(TRUE, reqs[i - 1].reply).value

\* C1: execute_trade with an invalid signal, or on a gateway that is not
\* connected, returns failure and issues no request at all.
C1_RefusesWithoutRequest ==
  (call.op = "execute_trade" /\ (~call.signal.valid \/ ~call.before))
    => (call.result = FALSE /\ call.requests = <<>> /\ ~call.raised)

C1_Witness ==
  /\ call.op = "execute_trade"
  /\ call.before
  /\ ~call.signal.valid
  /\ call.result = FALSE

\* C2: handle_photo calls execute_trade exactly when auto-trade is enabled
\* and the signal of the event is valid, at most once per event; otherwise
\* nothing is sent.
C2_TradeIffAutoAndValid ==
  \A h \in Handlers :
    /\ out[h].invoked \in {0, 1}
    /\ out[h].invoked = 1 <=>
         (/\ out[h].status = "done"
          /\ CONFIG.enable_auto_trade
          /\ out[h].signal.run
          /\ out[h].signal.signal.valid)
    /\ out[h].invoked = 0 => (out[h].requests = <<>> /\ out[h].result = "none")

C2_Witness ==
  \E h \in Handlers :
    out[h].status = "done" /\ out[h].invoked = 1 /\ CONFIG.enable_auto_trade

\* C3: as wired in main.py, an event whose text yields a valid SELL signal,
\* with auto-trade enabled and the brokerage answering 201 to orders, makes
\* the brokerage receive exactly one order, side SELL, with the computed
\* volume, and execute_trade returns success.
C3_EndToEndSellOrder ==
  \A h \in Handlers :
    (/\ out[h].status = "done"
     /\ CONFIG.enable_auto_trade
     /\ out[h].signal.signal.valid
     /\ out[h].signal.signal.action = "SELL"
     /\ \A i \in Posts(out[h].requests) :
          ~out[h].requests[i].reply.err /\ out[h].requests[i].reply.status = 201
             /\ out[h].requests[i].reply.body = "object")
    => (/\ Cardinality(Posts(out[h].requests)) = 1
        /\ \A i \in Posts(out[h].requests) :
             /\ out[h].requests[i].payload[1].tradeSide = "SELL"
             /\ i > 1
             /\ out[h].requests[i].payload[1].volume =
                  calculate_lot_size(out[h].signal.signal.risk_percent,
                                     BalanceBefore(out[h].requests, i))
        /\ out[h].result = "success")

\* C4: the risk_percent of every parsed Signal is at most max_risk_percent,
\* read from the text or taken from the default.
C4_RiskNeverAboveMax ==
  psignal.run => psignal.signal.risk_percent <= pconfig.max_risk_percent

\* C5: valid is true exactly when action, stop_loss and take_profit are all
\* set; a text with neither BUY nor SELL has no action and is not valid.
C5_ValidIffRequiredFields ==
  psignal.run =>
    /\ psignal.signal.valid <=>
         (/\ psignal.signal.action \in {"BUY", "SELL"}
          /\ Len(psignal.signal.stop_loss) = 1
          /\ Len(psignal.signal.take_profit) = 1)
    /\ (~HasBuy(ptext) /\ ~HasSell(ptext)) =>
         (psignal.signal.action = NoAction /\ ~psignal.signal.valid)

C5_Witness ==
  /\ psignal.run
  /\ psignal.signal.valid
  /\ psignal.signal.take_profit # None

\* C6: the action is BUY when the text, case ignored, contains BUY (also
\* when it contains SELL too), SELL when it contains SELL and not BUY, unset
\* otherwise; in signal_parser.py and in bot.py.
ExpectedAction(t) ==
  IF HasBuy(t) THEN "BUY" ELSE IF HasSell(t) THEN "SELL" ELSE NoAction

C6_ActionExtraction ==
  /\ psignal.run => psignal.signal.action = ExpectedAction(ptext)
  /\ bsignal.run => bsignal.signal.action = ExpectedAction(ptext)

C6_Witness ==
  /\ psignal.run
  /\ bsignal.run
  /\ HasBuy(ptext)
  /\ HasSell(ptext)
  /\ psignal.signal.action = "BUY"

\* the answer to the order request of a direct execute_trade call
OrderReply == call.requests[Len(call.requests)].reply

\* C7 as stated: on a valid signal and a connected gateway, execute_trade
\* succeeds on every 2xx answer to the order, fails otherwise, never raises.
C7_SuccessOnAny2xx ==
  (call.op = "execute_trade" /\ call.signal.valid /\ call.before)
    => /\ ~call.raised
       /\ call.result <=>
            (~OrderReply.err /\ OrderReply.status >= 200 /\ OrderReply.status <= 299)

\* C7 amended: success exactly on a 200 or 201 answer whose body is a JSON
\* object; failure on every other answer and on transport failure; never
\* raises.
C7_SuccessIff200Or201Json ==
  (call.op = "execute_trade" /\ call.signal.valid /\ call.before)
    => /\ ~call.raised
       /\ Len(call.requests) = 2
       /\ call.requests[2].method = "POST"
       /\ call.result <=>
            (/\ ~OrderReply.err
             /\ OrderReply.status \in {200, 201}
             /\ OrderReply.body = "object")

C7_Witness ==
  /\ call.op = "execute_trade"
  /\ call.signal.valid
  /\ call.before
  /\ OrderReply.status = 201
  /\ call.result = TRUE

NoRepeat(st) == \A i, j \in DOMAIN st : st[i] = st[j] => i = j

\* C9: an event whose download or inference fails ends with no signal, no
\* request, no retry and no exception out of handle_photo; the handler is
\* idle again, takes the next event from the state a fresh handler has, and
\* the failing step touches nothing but the event's own outcome.
C9_FailedEventState ==
  \A h \in Handlers :
    out[h].status = "failed" =>
      /\ out[h].signal = NotRun
      /\ out[h].requests = <<>>
      /\ out[h].invoked = 0
      /\ out[h].result = "none"
      /\ ~out[h].raised
      /\ NoRepeat(out[h].stages)
      /\ pc[h] = "idle"
      /\ ev[h] = NoEvent
      /\ photo[h] = NoPhoto
      /\ ENABLED Receive(h)

C9_FailedStepFrame ==
  \A h \in Handlers :
    /\ (out[h].status # "failed" /\ out'[h].status = "failed") =>
         /\ UNCHANGED <<CONFIG, connection>>
         /\ \A g \in Handlers \ {h} :
              pc'[g] = pc[g] /\ ev'[g] = ev[g] /\ photo'[g] = photo[g] /\ out'[g] = out[g]
    /\ (out[h].status = "failed" /\ pc'[h] # "idle") =>
         (pc'[h] = "get_file" /\ out'[h] = NoOutcome /\ photo'[h] = NoPhoto)

C9_FailureAbortsEvent == [](C9_FailedEventState) /\ [][C9_FailedStepFrame]_vars

C9_Witness ==
  \E h \in Handlers :
    /\ out[h].status = "failed"
    /\ out[h].stages = <<"get_file", "download", "generate">>
    /\ connection

\* C10: with two invocations interleaved at their awaits, the Signal of an
\* event and the order built from it are those of the event's own photo
\* under the configuration, and a step of one invocation writes nothing
\* the other reads.
C10_OwnOutcome ==
  \A h \in Handlers :
    out[h].status = "done" =>
      LET own == ParsedEvent(out[h].text, CONFIG) IN
      /\ out[h].signal = Ran(own)
      /\ \A i \in Posts(out[h].requests) :
           /\ i > 1
           /\ out[h].requests[i].payload =
                <<OrderPayload(own, calculate_lot_size(own.risk_percent,
                                                        BalanceBefore(out[h].requests, i)))>>

C10_StepFrame ==
  \A h \in Handlers :
    pc'[h] # pc[h] =>
      /\ UNCHANGED <<CONFIG, connection>>
      /\ \A g \in Handlers \ {h} :
           pc'[g] = pc[g] /\ ev'[g] = ev[g] /\ photo'[g] = photo[g] /\ out'[g] = out[g]

C10_NoInterference == [](C10_OwnOutcome) /\ [][C10_StepFrame]_vars

C10_Witness ==
  \E h, g \in Handlers :
    /\ h # g
    /\ out[h].status = "done"
    /\ Posts(out[h].requests) # {}
    /\ pc[g] = "download"
    /\ ev[g] # out[h].text

\* what one step of the gateway does to the connection flag
C11_FlagStep ==
  /\ connection => connection'
  /\ (~connection /\ connection') =>
       /\ call'.op = "connect"
       /\ call'.result = TRUE
       /\ ~call'.requests[1].reply.err
       /\ call'.requests[1].reply.status = 200
  /\ (call'.op = "connect" /\ ~call'.result) => connection' = connection
  /\ call'.op \in {"execute_trade", "get_account_balance", "close_position"} =>
       connection' = connection

\* C11: the connection flag starts unset, is set only by a connect() whose
\* account lookup answered 200, and no operation clears it: a failed
\* connect(), execute_trade, get_account_balance and close_position leave
\* it as it was.
C11_ConnectionFlagMonotone ==
  /\ (connection = FALSE /\ call = NoCall)
  /\ [][C11_FlagStep]_vars

C11_Witness ==
  /\ connection
  /\ call.op = "connect"
  /\ call.before
  /\ ~call.result

====
